---- MODULE Spec2Model ----
(***************************************************************************)
(* flake-fmt: a caching wrapper around `nix build .#formatter.<system>`.   *)
(* The model follows src/flake_fmt/__main__.py: one run of main() is a     *)
(* sequence of steps separated by the blocking external commands; the      *)
(* filesystem (directory tree, input-file mtimes, the cache entry) and the *)
(* process environment are the shared state the runs read and write.       *)
(***************************************************************************)
EXTENDS Integers, Sequences, FiniteSets, TLC

\* ------------------------------------------------------------------ bounds
\* Largest value of the filesystem clock that stamps mtimes.
MaxTime == 2
\* Longest command line (number of tokens after the program name).
MaxArgs == 3

\* ------------------------------------------------------- the environment
\* Processes that may run main(); `procs` (set in Init) says which do.
Procs == {1, 2}

\* A chain of directories: "/" is the filesystem root, its own parent.
Dirs == {"/", "/r", "/r/s"}
Parent == [d \in Dirs |-> IF d = "/r/s" THEN "/r" ELSE "/"]

\* find_flake_root's None.
None == "None"

\* The two input files check_cache_validity looks at, in its order.
InputFiles == <<"flake.nix", "flake.lock">>

\* mtime of a file that does not exist.
Missing == -1
Times == 0..MaxTime

\* Values the NO_CACHE environment variable is given ("<unset>": not set).
Unset == "<unset>"
NoCacheValues == {Unset, "", "0", "1"}

\* Command-line tokens and the command lines main() is started with.
Tokens == {"a", "--", "c"}
RECURSIVE SeqsUpTo(_)
SeqsUpTo(n) ==
    IF n = 0 THEN {<<>>}
    ELSE LET shorter == SeqsUpTo(n - 1)
         IN  shorter \cup {Append(s, t) : s \in {x \in shorter : Len(x) = n - 1}, t \in Tokens}
ArgLists == SeqsUpTo(MaxArgs)
\* The command lines of the runs that are not about argument routing.
TypicalArgs == {<<>>, <<"a", "--", "c">>}

\* Exit codes a failing nix command reports, and codes a formatter exits with.
NixFailCodes == {1, 2}
FormatterCodes == {0, 3}

\* What the platform query prints.
SystemName == "x86_64-linux"

\* Store paths a build can report, and what each holds.  A bin entry has a
\* name, is or is not a regular file, and is or is not executable (X_OK).
BinEntry(n, f, x) == [name |-> n, is_file |-> f, xok |-> x]
StorePaths == {"/nix/store/treefmt", "/nix/store/multi", "/nix/store/script", "/nix/store/data"}
StoreFS ==
    [s \in StorePaths |->
        CASE s = "/nix/store/treefmt" ->
                [xok |-> TRUE, has_bin |-> TRUE,
                 bin |-> {BinEntry("treefmt", TRUE, TRUE), BinEntry("a-fmt", TRUE, TRUE)}]
          [] s = "/nix/store/multi" ->
                [xok |-> TRUE, has_bin |-> TRUE,
                 bin |-> {BinEntry("treefmt", TRUE, FALSE), BinEntry("a-fmt", TRUE, TRUE),
                          BinEntry("b-fmt", TRUE, TRUE), BinEntry("lib", FALSE, TRUE)}]
          [] s = "/nix/store/script" ->
                [xok |-> TRUE, has_bin |-> FALSE, bin |-> {}]
          [] OTHER ->
                [xok |-> FALSE, has_bin |-> TRUE, bin |-> {BinEntry("README", TRUE, FALSE)}]]

\* ------------------------------------------------------------------ state
VARIABLES
    procs,      \* the processes that run main() in this behaviour
    hasGit,     \* directories that hold a .git
    cwd,        \* the working directory main() is started in
    clock,      \* filesystem time
    mtime,      \* mtime[d][f]: mtime of d/f for f in InputFiles, or Missing
    cache,      \* cache[d]: the cache entry of project root d
    environ,    \* value of NO_CACHE
    cacheDir,   \* TRUE when <cache home>/flake-fmt exists
    fresh,      \* history: the entry was built and no input file was touched since
    run         \* run[p]: the state of process p's run of main()

vars == <<procs, hasGit, cwd, clock, mtime, cache, environ, cacheDir, fresh, run>>

\* A cache entry: absent, or an out-link to a store path with the link's mtime.
NoEntry == [exists |-> FALSE, mtime |-> Missing, target |-> None]

\* A run before main() is entered.
IdleRun ==
    [pc |-> "idle", args |-> <<>>, nix_args |-> <<>>, formatter_args |-> <<>>,
     toplevel |-> None, inspected |-> <<>>, current_system |-> None,
     fmt_cache_path |-> None,
     needs_update |-> FALSE, build_args |-> <<>>, statted |-> <<>>,
     checked |-> FALSE, entry_before |-> NoEntry, newer |-> {}, no_cache |-> Unset,
     was_fresh |-> FALSE,
     cmds |-> <<>>, stderr |-> <<>>, exit_code |-> -1, child_code |-> -1]

\* ---------------------------------------------------------------- helpers
\* Path.exists() of d/flake.nix.
hasFlake == {d \in Dirs : mtime[d]["flake.nix"] # Missing}

\* str(cache_dir / sha256(str(toplevel)).hexdigest()): one name per root.
CachePath ==
    [d \in Dirs |->
        CASE d = "/"  -> "~/.cache/flake-fmt/sha256(/)"
          [] d = "/r" -> "~/.cache/flake-fmt/sha256(/r)"
          [] OTHER    -> "~/.cache/flake-fmt/sha256(/r/s)"]
CachePaths == {CachePath[d] : d \in Dirs}
RootOf(path) == CHOOSE d \in Dirs : CachePath[d] = path

\* What a path handed to execute_formatter holds: a store path holds itself,
\* a cache entry holds what its out-link points to, anything else nothing.
NoLayout == [xok |-> FALSE, has_bin |-> FALSE, bin |-> {}]
Layout(path) ==
    IF path \in StorePaths THEN StoreFS[path]
    ELSE IF path \in CachePaths /\ cache[RootOf(path)].exists
         THEN StoreFS[cache[RootOf(path)].target]
    ELSE NoLayout

\* str.strip() of the outputs nix prints.
Strip(s) ==
    CASE s = "true\n" -> "true"
      [] s = "false\n" -> "false"
      [] s = "x86_64-linux\n" -> "x86_64-linux"
      [] s \in {"/nix/store/treefmt\n", " /nix/store/treefmt\n"} -> "/nix/store/treefmt"
      [] s = "/nix/store/multi\n" -> "/nix/store/multi"
      [] s = "/nix/store/script\n" -> "/nix/store/script"
      [] s = "/nix/store/data\n" -> "/nix/store/data"
      [] OTHER -> s
\* What `nix build --print-out-paths` prints for a store path.
PrintOutPath(s) ==
    CASE s = "/nix/store/treefmt" -> "/nix/store/treefmt\n"
      [] s = "/nix/store/multi" -> "/nix/store/multi\n"
      [] s = "/nix/store/script" -> "/nix/store/script\n"
      [] OTHER -> "/nix/store/data\n"

\* The stderr texts of a failing nix command.
NixErrors == {"error: flake does not provide attribute 'formatter'", "error: evaluation failed"}

\* A wrong test: no failure is taken for a missing formatter attribute.
NeverMissingAttribute(stderr) == FALSE

\* "does not provide attribute" in e.stderr
DoesNotProvideAttribute(stderr) ==
    stderr = "error: flake does not provide attribute 'formatter'"

\* ------------------------------------------------------- find_flake_root
\* A wrong walk: it does not stop at a directory that holds .git.
RECURSIVE WalkPastGit(_, _)
WalkPastGit(current, inspected) ==
    LET seen == Append(inspected, current)
    IN  IF current = Parent[current]
        THEN [root |-> IF current \in hasFlake THEN current ELSE None, inspected |-> seen]
        ELSE IF current \in hasFlake THEN [root |-> current, inspected |-> seen]
        ELSE WalkPastGit(Parent[current], seen)

\* A wrong walk: .git is looked for before flake.nix.
RECURSIVE WalkGitFirst(_, _)
WalkGitFirst(current, inspected) ==
    LET seen == Append(inspected, current)
    IN  IF current = Parent[current]
        THEN [root |-> IF current \in hasFlake THEN current ELSE None, inspected |-> seen]
        ELSE IF current \in hasGit THEN [root |-> None, inspected |-> seen]
        ELSE IF current \in hasFlake THEN [root |-> current, inspected |-> seen]
        ELSE WalkGitFirst(Parent[current], seen)

\* The walk, with the directories it inspected in order.
RECURSIVE Walk(_, _)
Walk(current, inspected) ==
    LET seen == Append(inspected, current)
    IN  IF current = Parent[current]
        THEN [root |-> IF current \in hasFlake THEN current ELSE None, inspected |-> seen]
        ELSE IF current \in hasFlake THEN [root |-> current, inspected |-> seen]
        ELSE IF current \in hasGit THEN [root |-> None, inspected |-> seen]
        ELSE Walk(Parent[current], seen)

find_flake_root(start_path) == Walk(start_path, <<>>)

\* ------------------------------------------------------- parse_arguments
\* A wrong split: at the last "--" instead of the first.
LastIndexOfSeparator(args) ==
    IF \E i \in 1..Len(args) : args[i] = "--"
    THEN CHOOSE i \in 1..Len(args) :
            args[i] = "--" /\ \A j \in (i + 1)..Len(args) : args[j] # "--"
    ELSE 0

\* args.index("--"): the first position holding "--" (0 when there is none).
IndexOfSeparator(args) ==
    IF \E i \in 1..Len(args) : args[i] = "--"
    THEN CHOOSE i \in 1..Len(args) : args[i] = "--" /\ \A j \in 1..(i - 1) : args[j] # "--"
    ELSE 0

parse_arguments(args) ==
    LET split_index == IndexOfSeparator(args)
    IN  IF split_index # 0
        THEN [nix_args |-> SubSeq(args, 1, split_index - 1),
              formatter_args |-> SubSeq(args, split_index + 1, Len(args))]
        ELSE [nix_args |-> args, formatter_args |-> <<>>]

\* ------------------------------------------------- check_cache_validity
\* A wrong reading of the flag: only NO_CACHE=1 counts.
TruthyOnlyOne(v) == v = "1"

\* os.environ.get("NO_CACHE") in a condition: set and not the empty string.
Truthy(v) == v # Unset /\ v # ""

\* A wrong comparison: an input as old as the entry counts as newer.
IsNewerOrEqual(file_mtime, reference_time) == file_mtime >= reference_time

\* file_mtime > reference_time
IsNewer(file_mtime, reference_time) == file_mtime > reference_time

\* A wrong loop: an input file that does not exist counts as newer.
RECURSIVE ScanMissingIsNewer(_, _, _)
ScanMissingIsNewer(i, reference_time, toplevel) ==
    IF i > Len(InputFiles) THEN [newer |-> FALSE, statted |-> <<>>]
    ELSE LET file == InputFiles[i]
             file_mtime == mtime[toplevel][file]
             rest == ScanMissingIsNewer(i + 1, reference_time, toplevel)
         IN  IF file_mtime = Missing \/ file_mtime > reference_time
             THEN [newer |-> TRUE, statted |-> <<file>>]
             ELSE [newer |-> rest.newer, statted |-> <<file>> \o rest.statted]

\* A wrong loop: it looks at the first input file only.
ScanFirstInputOnly(i, reference_time, toplevel) ==
    LET file_mtime == mtime[toplevel][InputFiles[1]]
    IN  IF i > 1 \/ file_mtime = Missing THEN [newer |-> FALSE, statted |-> <<>>]
        ELSE [newer |-> file_mtime > reference_time, statted |-> <<InputFiles[1]>>]

\* The loop over InputFiles from position i, with its break; statted lists
\* the files whose mtime it read.
RECURSIVE ScanInputs(_, _, _)
ScanInputs(i, reference_time, toplevel) ==
    IF i > Len(InputFiles) THEN [newer |-> FALSE, statted |-> <<>>]
    ELSE LET file == InputFiles[i]
             file_mtime == mtime[toplevel][file]
             rest == ScanInputs(i + 1, reference_time, toplevel)
         IN  IF file_mtime # Missing
             THEN IF IsNewer(file_mtime, reference_time)
                  THEN [newer |-> TRUE, statted |-> <<file>>]
                  ELSE [newer |-> rest.newer, statted |-> <<file>> \o rest.statted]
             ELSE rest

\* A wrong check: the in-place flag is added whenever the entry exists,
\* also when NO_CACHE forces the rebuild.
CheckAlwaysInPlace(toplevel) ==
    LET entry == cache[toplevel]
    IN  IF ~entry.exists
        THEN [needs_update |-> TRUE, build_args |-> <<>>, statted |-> <<>>]
        ELSE IF Truthy(environ)
        THEN [needs_update |-> TRUE, build_args |-> <<"-o", CachePath[toplevel]>>,
              statted |-> <<>>]
        ELSE LET scan == ScanInputs(1, entry.mtime, toplevel)
             IN  [needs_update |-> scan.newer,
                  build_args |-> <<"-o", CachePath[toplevel]>>,
                  statted |-> scan.statted]

check_cache_validity(toplevel) ==
    LET entry == cache[toplevel]
    IN  IF ~entry.exists
        THEN [needs_update |-> TRUE, build_args |-> <<>>, statted |-> <<>>]
        ELSE IF Truthy(environ)
        THEN [needs_update |-> TRUE, build_args |-> <<>>, statted |-> <<>>]
        ELSE LET scan == ScanInputs(1, entry.mtime, toplevel)
             IN  [needs_update |-> scan.newer,
                  build_args |-> <<"-o", CachePath[toplevel]>>,
                  statted |-> scan.statted]

\* The input files of toplevel that exist and are strictly newer than its entry.
NewerInputs(toplevel) ==
    {f \in {"flake.nix", "flake.lock"} :
        mtime[toplevel][f] # Missing /\ mtime[toplevel][f] > cache[toplevel].mtime}

\* ----------------------------------------------------- execute_formatter
\* bin_dir.iterdir(): the entries in some order the directory yields them.
IterDir(bin) ==
    {order \in [1..Cardinality(bin) -> bin] :
        \A i, j \in 1..Cardinality(bin) : i # j => order[i] # order[j]}

\* The first entry of the enumeration that is an executable regular file.
FirstExecutable(order) ==
    IF \E i \in 1..Len(order) : order[i].is_file /\ order[i].xok
    THEN LET i == CHOOSE k \in 1..Len(order) :
                      /\ order[k].is_file /\ order[k].xok
                      /\ \A j \in 1..(k - 1) : ~(order[j].is_file /\ order[j].xok)
         IN  order[i].name
    ELSE None

\* A wrong test: bin/treefmt is taken whenever it exists, executable or not.
TreefmtExists(layout) ==
    layout.has_bin /\ \E e \in layout.bin : e.name = "treefmt"

\* treefmt_path.exists() and os.access(treefmt_path, os.X_OK)
TreefmtOk(layout) ==
    layout.has_bin /\ \E e \in layout.bin : e.name = "treefmt" /\ e.xok

\* The executable execute_formatter runs for an artifact, given the order in
\* which its bin directory is enumerated: [base, rel], or None.
ResolveExecutable(path, order) ==
    LET layout == Layout(path)
    IN  IF TreefmtOk(layout) THEN [base |-> path, rel |-> "bin/treefmt"]
        ELSE IF layout.has_bin /\ FirstExecutable(order) # None
             THEN [base |-> path, rel |-> FirstExecutable(order)]
        ELSE IF layout.xok THEN [base |-> path, rel |-> "."]
        ELSE [base |-> None, rel |-> None]

\* ---------------------------------------------------------------- run_nix
\* One subprocess.run() of nix, with what it returned.
Nix == [base |-> "nix", rel |-> "."]
run_nix(args, dir, returncode, stdout, stderr) ==
    [kind |-> args[1], exe |-> Nix,
     argv |-> <<"--extra-experimental-features", "flakes nix-command">> \o args,
     cwd |-> dir, returncode |-> returncode, stdout |-> stdout, stderr |-> stderr]

\* A wrong handler: every failed command ends the run with exit code 1.
FailWithOne(r, returncode) ==
    [r EXCEPT !.pc = "done",
              !.stderr = Append(@, "Error: Nix command failed"),
              !.exit_code = 1]

\* A wrong handler: the failure is reported and the run goes on to the
\* launch step.
FailThenLaunch(r, returncode) ==
    [r EXCEPT !.pc = "execute",
              !.stderr = Append(@, "Error: Nix command failed"),
              !.exit_code = returncode]

\* The except clause of main(): report the failed command, exit with its code.
Fail(r, returncode) ==
    [r EXCEPT !.pc = "done",
              !.stderr = Append(@, "Error: Nix command failed"),
              !.exit_code = returncode]

\* A wrong exit: the run ends with the code and prints nothing.
ExitSilently(r, msg, code) ==
    [r EXCEPT !.pc = "done", !.exit_code = code]

\* sys.exit(code) after printing msg to stderr.
ExitWith(r, msg, code) ==
    [r EXCEPT !.pc = "done", !.stderr = Append(@, msg), !.exit_code = code]

\* A wrong launch: the formatter is started in the directory main() was
\* started in (no cwd= argument).
LaunchInStartDirectory(r, exe, returncode) ==
    [r EXCEPT !.pc = "done",
              !.cmds = Append(@, [kind |-> "launch", exe |-> exe, argv |-> r.formatter_args,
                                  cwd |-> cwd, returncode |-> returncode,
                                  stdout |-> "", stderr |-> ""]),
              !.child_code = returncode,
              !.exit_code = returncode]

\* A wrong launch: the run exits 0 whatever the formatter returned.
LaunchExitZero(r, exe, returncode) ==
    [r EXCEPT !.pc = "done",
              !.cmds = Append(@, [kind |-> "launch", exe |-> exe, argv |-> r.formatter_args,
                                  cwd |-> r.toplevel, returncode |-> returncode,
                                  stdout |-> "", stderr |-> ""]),
              !.child_code = returncode,
              !.exit_code = 0]

\* subprocess.run([exe, *formatter_args], cwd=toplevel), then
\* sys.exit(result.returncode).
Launch(r, exe, returncode) ==
    [r EXCEPT !.pc = "done",
              !.cmds = Append(@, [kind |-> "launch", exe |-> exe, argv |-> r.formatter_args,
                                  cwd |-> r.toplevel, returncode |-> returncode,
                                  stdout |-> "", stderr |-> ""]),
              !.child_code = returncode,
              !.exit_code = returncode]

\* ------------------------------------------------------------------ Init
\* An empty cache, NO_CACHE unset, a directory tree with flake.nix and .git
\* in any of its directories, no flake.lock yet, one process.
InitTree ==
    /\ hasGit \in SUBSET Dirs
    /\ \E flakes \in SUBSET Dirs :
          mtime = [d \in Dirs |->
                    [f \in {"flake.nix", "flake.lock"} |->
                        IF f = "flake.nix" /\ d \in flakes THEN 0 ELSE Missing]]
    /\ cwd \in Dirs

InitRest ==
    /\ clock = 0
    /\ cache = [d \in Dirs |-> NoEntry]
    /\ environ = Unset
    /\ cacheDir = FALSE
    /\ fresh = FALSE
    /\ run = [p \in Procs |-> IdleRun]

\* A project at /r, which is also the repository root, entered at /r or /r/s.
InitProject ==
    /\ hasGit = {"/r"}
    /\ mtime = [d \in Dirs |->
                [f \in {"flake.nix", "flake.lock"} |->
                    IF f = "flake.nix" /\ d = "/r" THEN 0 ELSE Missing]]
    /\ cwd \in {"/r", "/r/s"}

Init == procs = {1} /\ InitProject /\ InitRest
InitAnyTree == procs = {1} /\ InitTree /\ InitRest

\* ------------------------------------------------------------- the run
\* A wrong main(): the platform is not queried before the cache check.
StartSkipsPlatformQuery(p, args) ==
    /\ p \in procs
    /\ run[p].pc = "idle"
    /\    LET parsed == parse_arguments(args)
              found == find_flake_root(cwd)
              r == [IdleRun EXCEPT !.args = args,
                                   !.nix_args = parsed.nix_args,
                                   !.formatter_args = parsed.formatter_args,
                                   !.toplevel = found.root,
                                   !.inspected = found.inspected]
          IN  run' = [run EXCEPT ![p] =
                        IF found.root = None
                        THEN ExitWith(r, "No flake.nix found", 1)
                        ELSE [r EXCEPT !.pc = "check_cache",
                                       !.current_system = "x86_64-linux"]]
    /\ UNCHANGED <<procs, hasGit, cwd, clock, mtime, cache, environ, cacheDir, fresh>>

\* main(), lines 246-259: parse the arguments, find the flake root.
Start(p, args) ==
    /\ p \in procs
    /\ run[p].pc = "idle"
    /\    LET parsed == parse_arguments(args)
              found == find_flake_root(cwd)
              r == [IdleRun EXCEPT !.args = args,
                                   !.nix_args = parsed.nix_args,
                                   !.formatter_args = parsed.formatter_args,
                                   !.toplevel = found.root,
                                   !.inspected = found.inspected]
          IN  run' = [run EXCEPT ![p] =
                        IF found.root = None
                        THEN ExitWith(r, "No flake.nix found", 1)
                        ELSE [r EXCEPT !.pc = "get_system"]]
    /\ UNCHANGED <<procs, hasGit, cwd, clock, mtime, cache, environ, cacheDir, fresh>>

\* get_current_system(): `nix config show system`.
GetCurrentSystem(p) ==
    /\ run[p].pc = "get_system"
    /\ LET args == <<"config", "show", "system">>
       IN  \/ run' = [run EXCEPT ![p] =
                        [run[p] EXCEPT
                           !.pc = "check_cache",
                           !.cmds = Append(@, run_nix(args, None, 0, "x86_64-linux\n", "")),
                           !.current_system = Strip("x86_64-linux\n")]]
           \/ \E returncode \in NixFailCodes, stderr \in NixErrors :
                run' = [run EXCEPT ![p] =
                          Fail([run[p] EXCEPT
                                  !.cmds = Append(@, run_nix(args, None, returncode, "", stderr))],
                               returncode)]
    /\ UNCHANGED <<procs, hasGit, cwd, clock, mtime, cache, environ, cacheDir, fresh>>

\* A wrong main(): the cache directory is made and the formatter is built
\* whatever the check answered.
CheckCacheAlwaysBuilds(p) ==
    /\ run[p].pc = "check_cache"
    /\ LET toplevel == run[p].toplevel
           check == check_cache_validity(toplevel)
       IN  /\ run' = [run EXCEPT ![p] =
                        [run[p] EXCEPT
                           !.pc = "eval",
                           !.fmt_cache_path = CachePath[toplevel],
                           !.needs_update = check.needs_update,
                           !.build_args = check.build_args,
                           !.statted = check.statted,
                           !.checked = TRUE,
                           !.entry_before = cache[toplevel],
                           !.newer = IF cache[toplevel].exists THEN NewerInputs(toplevel) ELSE {},
                           !.no_cache = environ,
                           !.was_fresh = fresh]]
           /\ cacheDir' = TRUE
    /\ UNCHANGED <<procs, hasGit, cwd, clock, mtime, cache, environ, fresh>>

\* main(), lines 265-276: derive the cache path, check the cache, and make
\* the cache directory when a rebuild is needed.
CheckCache(p) ==
    /\ run[p].pc = "check_cache"
    /\ LET toplevel == run[p].toplevel
           check == check_cache_validity(toplevel)
       IN  /\ run' = [run EXCEPT ![p] =
                        [run[p] EXCEPT
                           !.pc = IF check.needs_update THEN "eval" ELSE "execute",
                           !.fmt_cache_path = CachePath[toplevel],
                           !.needs_update = check.needs_update,
                           !.build_args = check.build_args,
                           !.statted = check.statted,
                           !.checked = TRUE,
                           !.entry_before = cache[toplevel],
                           !.newer = IF cache[toplevel].exists THEN NewerInputs(toplevel) ELSE {},
                           !.no_cache = environ,
                           !.was_fresh = fresh]]
           /\ cacheDir' = (cacheDir \/ check.needs_update)
    /\ UNCHANGED <<procs, hasGit, cwd, clock, mtime, cache, environ, fresh>>

\* A wrong capability step: without a formatter it warns and returns the
\* cache path it was given instead of ending the run.
EvalWarnsAndReturns(p) ==
    /\ run[p].pc = "eval"
    /\ LET args == <<"eval", ".#formatter", "--apply", "(val: val ? x86_64-linux)">>
                       \o run[p].nix_args
           toplevel == run[p].toplevel
       IN  \/ \E stdout \in {"true\n", "false\n"} :
                LET r == [run[p] EXCEPT
                            !.cmds = Append(@, run_nix(args, toplevel, 0, stdout, ""))]
                IN  run' = [run EXCEPT ![p] =
                              IF Strip(stdout) # "true"
                              THEN [r EXCEPT !.pc = "execute",
                                             !.stderr = Append(@, "Warning: No formatter defined")]
                              ELSE [r EXCEPT !.pc = "build"]]
           \/ \E returncode \in NixFailCodes, stderr \in NixErrors :
                LET r == [run[p] EXCEPT
                            !.cmds = Append(@, run_nix(args, toplevel, returncode, "", stderr))]
                IN  run' = [run EXCEPT ![p] =
                              IF DoesNotProvideAttribute(stderr)
                              THEN [r EXCEPT !.pc = "execute",
                                             !.stderr = Append(@, "Warning: No formatter defined")]
                              ELSE Fail(r, returncode)]
    /\ UNCHANGED <<procs, hasGit, cwd, clock, mtime, cache, environ, cacheDir, fresh>>

\* build_formatter(), lines 165-184: does the flake define a formatter for
\* the current system?
EvalFormatter(p) ==
    /\ run[p].pc = "eval"
    /\ LET args == <<"eval", ".#formatter", "--apply", "(val: val ? x86_64-linux)">>
                       \o run[p].nix_args
           toplevel == run[p].toplevel
       IN  \/ \E stdout \in {"true\n", "false\n"} :
                LET r == [run[p] EXCEPT
                            !.cmds = Append(@, run_nix(args, toplevel, 0, stdout, ""))]
                IN  run' = [run EXCEPT ![p] =
                              IF Strip(stdout) # "true"
                              THEN ExitWith(r, "Warning: No formatter defined", 0)
                              ELSE [r EXCEPT !.pc = "build"]]
           \/ \E returncode \in NixFailCodes, stderr \in NixErrors :
                LET r == [run[p] EXCEPT
                            !.cmds = Append(@, run_nix(args, toplevel, returncode, "", stderr))]
                IN  run' = [run EXCEPT ![p] =
                              IF DoesNotProvideAttribute(stderr)
                              THEN ExitWith(r, "Warning: No formatter defined", 0)
                              ELSE Fail(r, returncode)]
    /\ UNCHANGED <<procs, hasGit, cwd, clock, mtime, cache, environ, cacheDir, fresh>>

\* A wrong build step: it returns the cache entry path it was given instead
\* of the path the build printed.
BuildReturnsEntryPath(p) ==
    /\ run[p].pc = "build"
    /\ LET toplevel == run[p].toplevel
           args == <<"build", "--print-out-paths", "--out-link", run[p].fmt_cache_path,
                     "--builders", "", "--keep-failed">>
                       \o run[p].build_args \o run[p].nix_args
                       \o <<".#formatter.x86_64-linux">>
       IN  \/ \E out \in StorePaths :
                /\ run' = [run EXCEPT ![p] =
                             [run[p] EXCEPT
                                !.pc = "execute",
                                !.cmds = Append(@, run_nix(args, toplevel, 0, PrintOutPath(out), ""))]]
                /\ cache' = [cache EXCEPT ![toplevel] =
                               [exists |-> TRUE, mtime |-> clock, target |-> out]]
                /\ fresh' = TRUE
           \/ \E returncode \in NixFailCodes, stderr \in NixErrors :
                /\ run' = [run EXCEPT ![p] =
                             Fail([run[p] EXCEPT
                                     !.cmds = Append(@, run_nix(args, toplevel, returncode, "", stderr))],
                                  returncode)]
                /\ UNCHANGED <<cache, fresh>>
    /\ UNCHANGED <<procs, hasGit, cwd, clock, mtime, environ, cacheDir>>

\* A wrong build step: an entry that is already there is left as it is.
BuildKeepsEntry(p) ==
    /\ run[p].pc = "build"
    /\ LET toplevel == run[p].toplevel
           args == <<"build", "--print-out-paths", "--out-link", run[p].fmt_cache_path,
                     "--builders", "", "--keep-failed">>
                       \o run[p].build_args \o run[p].nix_args
                       \o <<".#formatter.x86_64-linux">>
       IN  \/ \E out \in StorePaths :
                /\ run' = [run EXCEPT ![p] =
                             [run[p] EXCEPT
                                !.pc = "execute",
                                !.cmds = Append(@, run_nix(args, toplevel, 0, PrintOutPath(out), "")),
                                !.fmt_cache_path = Strip(PrintOutPath(out))]]
                /\ cache' = IF cache[toplevel].exists THEN cache
                            ELSE [cache EXCEPT ![toplevel] =
                                    [exists |-> TRUE, mtime |-> clock, target |-> out]]
                /\ fresh' = TRUE
           \/ \E returncode \in NixFailCodes, stderr \in NixErrors :
                /\ run' = [run EXCEPT ![p] =
                             Fail([run[p] EXCEPT
                                     !.cmds = Append(@, run_nix(args, toplevel, returncode, "", stderr))],
                                  returncode)]
                /\ UNCHANGED <<cache, fresh>>
    /\ UNCHANGED <<procs, hasGit, cwd, clock, mtime, environ, cacheDir>>

\* build_formatter(), lines 186-206: `nix build --out-link <entry>`.  A
\* successful build (re)creates the entry as a link stamped with the
\* current time and prints the store path it built.
BuildFormatter(p) ==
    /\ run[p].pc = "build"
    /\ LET toplevel == run[p].toplevel
           args == <<"build", "--print-out-paths", "--out-link", run[p].fmt_cache_path,
                     "--builders", "", "--keep-failed">>
                       \o run[p].build_args \o run[p].nix_args
                       \o <<".#formatter.x86_64-linux">>
       IN  \/ \E out \in StorePaths :
                /\ run' = [run EXCEPT ![p] =
                             [run[p] EXCEPT
                                !.pc = "execute",
                                !.cmds = Append(@, run_nix(args, toplevel, 0, PrintOutPath(out), "")),
                                !.fmt_cache_path = Strip(PrintOutPath(out))]]
                /\ cache' = [cache EXCEPT ![toplevel] =
                               [exists |-> TRUE, mtime |-> clock, target |-> out]]
                /\ fresh' = TRUE
           \/ \E returncode \in NixFailCodes, stderr \in NixErrors :
                /\ run' = [run EXCEPT ![p] =
                             Fail([run[p] EXCEPT
                                     !.cmds = Append(@, run_nix(args, toplevel, returncode, "", stderr))],
                                  returncode)]
                /\ UNCHANGED <<cache, fresh>>
    /\ UNCHANGED <<procs, hasGit, cwd, clock, mtime, environ, cacheDir>>

\* execute_formatter(): pick the executable, run it in toplevel, exit with
\* its return code; exit 1 when there is none.
ExecuteFormatter(p) ==
    /\ run[p].pc = "execute"
    /\ \E order \in IterDir(Layout(run[p].fmt_cache_path).bin), returncode \in FormatterCodes :
          LET exe == ResolveExecutable(run[p].fmt_cache_path, order)
          IN  run' = [run EXCEPT ![p] =
                        IF exe.base # None
                        THEN Launch(run[p], exe, returncode)
                        ELSE ExitWith(run[p], "No executable formatter found", 1)]
    /\ UNCHANGED <<procs, hasGit, cwd, clock, mtime, cache, environ, cacheDir, fresh>>

\* ------------------------------------------------------ the environment
\* The process has exited and is gone; main() can be started again.
Reap(p) ==
    /\ run[p].pc = "done"
    /\ run' = [run EXCEPT ![p] = IdleRun]
    /\ UNCHANGED <<procs, hasGit, cwd, clock, mtime, cache, environ, cacheDir, fresh>>

\* The environment changes between runs, not during one.
Quiet == \A p \in Procs : run[p].pc = "idle"

\* Time passes.
Tick ==
    /\ Quiet
    /\ clock < MaxTime
    /\ clock' = clock + 1
    /\ UNCHANGED <<procs, hasGit, cwd, mtime, cache, environ, cacheDir, fresh, run>>

\* The user edits flake.nix, or writes flake.lock, in the project the
\* working directory belongs to: the file gets the current time as mtime.
Touch(file) ==
    /\ Quiet
    /\ find_flake_root(cwd).root # None
    /\ LET toplevel == find_flake_root(cwd).root
       IN  /\ mtime[toplevel][file] # clock
           /\ mtime' = [mtime EXCEPT ![toplevel][file] = clock]
    /\ fresh' = FALSE
    /\ UNCHANGED <<procs, hasGit, cwd, clock, cache, environ, cacheDir, run>>

\* The user sets, changes or unsets NO_CACHE.
SetNoCache(value) ==
    /\ Quiet
    /\ value # environ
    /\ environ' = value
    /\ UNCHANGED <<procs, hasGit, cwd, clock, mtime, cache, cacheDir, fresh, run>>

\* The user empties the cache directory.
ClearCache ==
    /\ Quiet
    /\ \E d \in Dirs : cache[d].exists
    /\ cache' = [d \in Dirs |-> NoEntry]
    /\ fresh' = FALSE
    /\ UNCHANGED <<procs, hasGit, cwd, clock, mtime, environ, cacheDir, run>>

\* The steps of a run that follow its start.
Steps ==
    \/ \E p \in Procs : GetCurrentSystem(p)
    \/ \E p \in Procs : CheckCache(p)
    \/ \E p \in Procs : EvalFormatter(p)
    \/ \E p \in Procs : BuildFormatter(p)
    \/ \E p \in Procs : ExecuteFormatter(p)
    \/ \E p \in Procs : Reap(p)

\* Runs of one project while time passes, its input files are touched,
\* NO_CACHE is set and unset and the cache is emptied.
Next ==
    \/ \E p \in Procs, args \in TypicalArgs : Start(p, args)
    \/ Steps
    \/ Tick
    \/ \E file \in {"flake.nix", "flake.lock"} : Touch(file)
    \/ \E value \in NoCacheValues : SetNoCache(value)
    \/ ClearCache

Spec == Init /\ [][Next]_vars

\* Runs in every directory tree and from every start directory.
NextTree ==
    \/ \E p \in Procs, args \in TypicalArgs : Start(p, args)
    \/ Steps
    \/ ClearCache

SpecTree == InitAnyTree /\ [][NextTree]_vars

\* Runs of one project with every command line of up to MaxArgs tokens.
NextArgs ==
    \/ \E p \in Procs, args \in ArgLists : Start(p, args)
    \/ Steps
    \/ ClearCache

SpecArgs == Init /\ [][NextArgs]_vars

\* Two processes started in the project at /r, whose entry is absent or is
\* older than flake.nix.
StaleEntry == [exists |-> TRUE, mtime |-> 0, target |-> "/nix/store/treefmt"]
InitConc ==
    /\ procs = Procs
    /\ hasGit = {"/r"}
    /\ cwd = "/r"
    /\ clock = 1
    /\ mtime = [d \in Dirs |->
                [f \in {"flake.nix", "flake.lock"} |->
                    IF f = "flake.nix" /\ d = "/r" THEN 1 ELSE Missing]]
    /\ \E entry \in {NoEntry, StaleEntry} :
          /\ cache = [d \in Dirs |-> IF d = "/r" THEN entry ELSE NoEntry]
          /\ cacheDir = entry.exists
    /\ environ = Unset
    /\ fresh = FALSE
    /\ run = [p \in Procs |-> IdleRun]

\* The steps of the two runs interleave in every order.
NextConc ==
    \/ \E p \in Procs : Start(p, <<>>)
    \/ Steps

SpecConc == InitConc /\ [][NextConc]_vars

\* ------------------------------------------------------------ properties
\* Positions in the command log of run p that hold a command of this kind.
Invoked(p, kind) == {i \in 1..Len(run[p].cmds) : run[p].cmds[i].kind = kind}
Launched(p) == Invoked(p, "launch") # {}

\* The run of p ended inside execute_formatter: by a launch, or because the
\* artifact holds nothing to launch.
EndedInLaunchStep(p) ==
    /\ run[p].pc = "done"
    /\ \/ Launched(p) /\ run[p].stderr = <<>>
       \/ ~Launched(p) /\ run[p].stderr = <<"No executable formatter found">>

C2_Invalidation ==
    \A p \in Procs :
        (/\ run[p].checked
         /\ run[p].entry_before.exists
         /\ run[p].no_cache \in {Unset, ""}
         /\ run[p].newer # {})
        => /\ run[p].needs_update
           /\ Cardinality(Invoked(p, "build")) <= 1
           /\ (run[p].pc = "execute" \/ Launched(p))
                => /\ Cardinality(Invoked(p, "build")) = 1
                   /\ \A b \in Invoked(p, "build"), l \in Invoked(p, "launch") : b < l

\* A run that found only flake.lock newer than the entry, rebuilt once and
\* launched.
C2_Witness ==
    \E p \in Procs :
        /\ run[p].pc = "done"
        /\ run[p].checked /\ run[p].entry_before.exists
        /\ run[p].no_cache = Unset
        /\ run[p].newer = {"flake.lock"}
        /\ Cardinality(Invoked(p, "build")) = 1
        /\ Launched(p)

\* C3: Override flag. A run that checks the cache when the entry exists and
\* NO_CACHE is set to a non-empty string decides to rebuild with no extra
\* build arguments and reads the mtime of no input file, whether or not an
\* input file is newer than the entry.
C3_Override ==
    \A p \in Procs :
        (/\ run[p].checked
         /\ run[p].entry_before.exists
         /\ run[p].no_cache \notin {Unset, ""})
        => /\ run[p].needs_update
           /\ run[p].build_args = <<>>
           /\ run[p].statted = <<>>
           /\ run[p].pc \in {"eval", "build"} \/ Invoked(p, "eval") # {}

\* A run with NO_CACHE=0, an entry no input file is newer than, that rebuilt
\* and launched.
C3_Witness ==
    \E p \in Procs :
        /\ run[p].pc = "done"
        /\ run[p].checked /\ run[p].entry_before.exists
        /\ run[p].no_cache = "0"
        /\ run[p].newer = {}
        /\ Cardinality(Invoked(p, "build")) = 1
        /\ Launched(p)

\* The directories from d up to the filesystem root, d included.
RECURSIVE AncestorsOrSelf(_)
AncestorsOrSelf(d) == {d} \cup (IF Parent[d] = d THEN {} ELSE AncestorsOrSelf(Parent[d]))

\* The directories on the way from start up to d, d excluded.
Below(start, d) == {e \in AncestorsOrSelf(start) : e # d /\ d \in AncestorsOrSelf(e)}

\* flake.nix is in start or in an ancestor, with no .git in a directory
\* strictly below it on the way up from start.
MarkerReachable(start) ==
    \E d \in AncestorsOrSelf(start) :
        d \in hasFlake /\ \A e \in Below(start, d) : e \notin hasGit

\* The commands of run p that were nix commands all returned 0.
NixSucceeded(p) ==
    \A i \in 1..Len(run[p].cmds) :
        run[p].cmds[i].exe = Nix => run[p].cmds[i].returncode = 0

\* An artifact layout holds something execute_formatter launches.
HoldsExecutable(layout) ==
    \/ layout.has_bin /\ \E e \in layout.bin : e.xok /\ (e.name = "treefmt" \/ e.is_file)
    \/ layout.xok

\* Run p made exactly one build, then exactly one launch, of the path the
\* build printed, and exited with the launched formatter's return code.
OneBuildThenLaunch(p) ==
    /\ Cardinality(Invoked(p, "build")) = 1
    /\ Cardinality(Invoked(p, "launch")) = 1
    /\ \A b \in Invoked(p, "build"), l \in Invoked(p, "launch") :
          /\ b < l
          /\ run[p].cmds[l].exe.base = Strip(run[p].cmds[b].stdout)
          /\ run[p].exit_code = run[p].cmds[l].returncode

\* Run p ended, from a start directory with a reachable flake.nix, having
\* found no cache entry, and all its nix commands returned 0.
FirstRunSucceeded(p) ==
    /\ run[p].pc = "done"
    /\ MarkerReachable(cwd)
    /\ ~(run[p].checked /\ run[p].entry_before.exists)
    /\ NixSucceeded(p)

\* C4 as claimed: every first run whose external commands succeed makes one
\* build and one launch and exits with the formatter's code.
C4_FirstRunAsClaimed ==
    \A p \in Procs : FirstRunSucceeded(p) => OneBuildThenLaunch(p)

\* C4: First run, amended. A first run whose external commands succeed,
\* whose capability query answers "true" and whose built artifact holds an
\* executable makes exactly one build, then exactly one launch of the built
\* result, and exits with the launched formatter's exit code.
C4_FirstRun ==
    \A p \in Procs :
        (/\ FirstRunSucceeded(p)
         /\ \A i \in Invoked(p, "eval") : Strip(run[p].cmds[i].stdout) = "true"
         /\ \A b \in Invoked(p, "build") :
               HoldsExecutable(StoreFS[Strip(run[p].cmds[b].stdout)]))
        => OneBuildThenLaunch(p)

\* A first run started two directories below the flake root that built,
\* launched, and exited with the formatter's code 3.
C4_Witness ==
    \E p \in Procs :
        /\ FirstRunSucceeded(p)
        /\ OneBuildThenLaunch(p)
        /\ cwd = "/r/s" /\ run[p].toplevel = "/"
        /\ run[p].exit_code = 3

\* The capability query of a command record found no formatter.
NoFormatterAnswer(c) ==
    /\ c.kind = "eval"
    /\ \/ c.returncode = 0 /\ Strip(c.stdout) # "true"
       \/ c.returncode # 0 /\ c.stderr = "error: flake does not provide attribute 'formatter'"

\* C5: Undefined platform. A run whose capability query answers anything
\* but "true", or fails with "does not provide attribute" on stderr, prints
\* "Warning: No formatter defined", exits 0, invokes no build, launches
\* nothing and leaves the cache entry as it was.
C5_NoFormatter ==
    \A p \in Procs :
        \A i \in Invoked(p, "eval") :
            NoFormatterAnswer(run[p].cmds[i])
            => /\ run[p].pc = "done"
               /\ run[p].stderr = <<"Warning: No formatter defined">>
               /\ run[p].exit_code = 0
               /\ Invoked(p, "build") = {}
               /\ ~Launched(p)
               /\ cache[run[p].toplevel] = run[p].entry_before

\* A run without a cache entry whose capability query failed for the
\* missing attribute: warned, exit 0, still no entry.
C5_Witness ==
    \E p \in Procs :
        /\ run[p].pc = "done"
        /\ \E i \in Invoked(p, "eval") :
              /\ NoFormatterAnswer(run[p].cmds[i])
              /\ run[p].cmds[i].returncode # 0
        /\ run[p].exit_code = 0
        /\ ~cache[run[p].toplevel].exists

\* The nearest directory with .git on the way up from start, when every
\* directory from start up to and including it has no flake.nix.
Boundaries(start) ==
    {g \in AncestorsOrSelf(start) :
        /\ g \in hasGit
        /\ \A e \in Below(start, g) : e \notin hasGit
        /\ \A e \in Below(start, g) \cup {g} : e \notin hasFlake}

\* C6: Boundary respect. A run started where no directory up to and
\* including the nearest .git directory holds flake.nix finds no root,
\* inspects no directory above that boundary, prints "No flake.nix found",
\* exits 1 and invokes no external command.
C6_Boundary ==
    \A p \in Procs :
        \A g \in Boundaries(cwd) :
            run[p].pc # "idle"
            => /\ run[p].toplevel = None
               /\ \A i \in 1..Len(run[p].inspected) :
                     run[p].inspected[i] \in Below(cwd, g) \cup {g}
               /\ run[p].pc = "done"
               /\ run[p].stderr = <<"No flake.nix found">>
               /\ run[p].exit_code = 1
               /\ run[p].cmds = <<>>

\* A run started in /r/s, with .git in /r and a flake.nix above it in /.
C6_Witness ==
    \E p \in Procs :
        /\ run[p].pc = "done"
        /\ cwd = "/r/s"
        /\ "/r" \in Boundaries(cwd)
        /\ "/" \in hasFlake
        /\ run[p].inspected = <<"/r/s", "/r">>

\* The tokens before the first "--", and those after it.
RECURSIVE BeforeSeparator(_)
BeforeSeparator(s) ==
    IF s = <<>> \/ Head(s) = "--" THEN <<>> ELSE <<Head(s)>> \o BeforeSeparator(Tail(s))
RECURSIVE AfterSeparator(_)
AfterSeparator(s) ==
    IF s = <<>> THEN <<>> ELSE IF Head(s) = "--" THEN Tail(s) ELSE AfterSeparator(Tail(s))

\* C7: Argument routing. In every run, the capability query and the build
\* are given the tokens before the first "--" (all of them when there is no
\* "--"), after their own arguments and before the installable, and the
\* launched executable is given exactly the tokens after the first "--", in
\* order.
C7_Routing ==
    \A p \in Procs :
        \A i \in 1..Len(run[p].cmds) :
            LET c == run[p].cmds[i]
                nix == <<"--extra-experimental-features", "flakes nix-command">>
            IN  /\ c.kind = "eval"
                   => c.argv = nix \o <<"eval", ".#formatter", "--apply",
                                        "(val: val ? x86_64-linux)">>
                                   \o BeforeSeparator(run[p].args)
                /\ c.kind = "build"
                   => c.argv = nix \o <<"build", "--print-out-paths", "--out-link",
                                        CachePath[run[p].toplevel], "--builders", "",
                                        "--keep-failed">>
                                   \o run[p].build_args
                                   \o BeforeSeparator(run[p].args)
                                   \o <<".#formatter.x86_64-linux">>
                /\ c.kind = "launch" => c.argv = AfterSeparator(run[p].args)

\* A run of `-- c --` that queried, built and launched: the formatter got
\* `c --`.
C7_Witness ==
    \E p \in Procs :
        /\ run[p].pc = "done"
        /\ run[p].args = <<"--", "c", "--">>
        /\ Invoked(p, "eval") # {} /\ Invoked(p, "build") # {}
        /\ \E l \in Invoked(p, "launch") : run[p].cmds[l].argv = <<"c", "--">>

\* A command record of a nix command that failed, other than a capability
\* query failing for the missing attribute.
FatalFailure(c) ==
    /\ c.exe = Nix
    /\ c.returncode # 0
    /\ ~(c.kind = "eval" /\ c.stderr = "error: flake does not provide attribute 'formatter'")

\* C8: Build-tool failure exit code. When a nix command of a run fails
\* (other than the capability query failing for the missing attribute), it
\* is the run's last command, the run prints one "Error: ..." diagnostic,
\* exits with that command's exit code and launches nothing.
C8_FailureExitCode ==
    \A p \in Procs :
        \A i \in 1..Len(run[p].cmds) :
            FatalFailure(run[p].cmds[i])
            => /\ run[p].pc = "done"
               /\ i = Len(run[p].cmds)
               /\ run[p].stderr = <<"Error: Nix command failed">>
               /\ run[p].exit_code = run[p].cmds[i].returncode
               /\ ~Launched(p)

\* A run whose build failed with exit code 2 over an existing cache entry.
C8_Witness ==
    \E p \in Procs :
        /\ run[p].pc = "done"
        /\ run[p].entry_before.exists
        /\ \E b \in Invoked(p, "build") : run[p].cmds[b].returncode = 2
        /\ run[p].exit_code = 2

\* The bin entries of a layout that are executable regular files.
BinExecutables(layout) ==
    IF layout.has_bin THEN {e \in layout.bin : e.is_file /\ e.xok} ELSE {}
HasTreefmt(layout) ==
    layout.has_bin /\ \E e \in layout.bin : e.name = "treefmt" /\ e.xok

\* C9: Launcher resolution order. A run that ends in the launch step
\* launches bin/treefmt when that exists and is executable; otherwise an
\* executable regular file of bin; otherwise the artifact path itself when
\* it is executable; otherwise it launches nothing, prints "No executable
\* formatter found" and exits 1. No run launches more than once.
C9_ResolutionOrder ==
    \A p \in Procs :
        /\ Cardinality(Invoked(p, "launch")) <= 1
        /\ EndedInLaunchStep(p)
           => LET layout == Layout(run[p].fmt_cache_path)
                  launched == {run[p].cmds[l].exe : l \in Invoked(p, "launch")}
                  In(rels) == {[base |-> run[p].fmt_cache_path, rel |-> r] : r \in rels}
              IN  IF HasTreefmt(layout) THEN launched = In({"bin/treefmt"})
                  ELSE IF BinExecutables(layout) # {}
                       THEN /\ Cardinality(launched) = 1
                            /\ launched \subseteq In({e.name : e \in BinExecutables(layout)})
                  ELSE IF layout.xok THEN launched = In({"."})
                  ELSE /\ launched = {}
                       /\ run[p].exit_code = 1
                       /\ run[p].stderr = <<"No executable formatter found">>

\* A cache-hit run over an artifact whose bin/treefmt is not executable:
\* another executable of bin was launched.
C9_Witness ==
    \E p \in Procs :
        /\ EndedInLaunchStep(p)
        /\ ~run[p].needs_update
        /\ cache[run[p].toplevel].target = "/nix/store/multi"
        /\ \E l \in Invoked(p, "launch") : run[p].cmds[l].exe.rel = "a-fmt"

\* The names of bin entries in sorted order.
SortedNames == <<"README", "a-fmt", "b-fmt", "lib", "treefmt">>
FirstSorted(names) ==
    SortedNames[CHOOSE i \in 1..Len(SortedNames) :
                    /\ SortedNames[i] \in names
                    /\ \A j \in 1..(i - 1) : SortedNames[j] \notin names]

\* C10: Deterministic executable discovery. When bin has no executable
\* treefmt and holds two or more executable regular files, the launched
\* file is the first of them in sorted order, whatever order the directory
\* is enumerated in.
C10_SortedDiscovery ==
    \A p \in Procs :
        LET layout == Layout(run[p].fmt_cache_path)
        IN  (/\ EndedInLaunchStep(p)
             /\ ~HasTreefmt(layout)
             /\ Cardinality(BinExecutables(layout)) >= 2)
            => \A l \in Invoked(p, "launch") :
                  run[p].cmds[l].exe.rel = FirstSorted({e.name : e \in BinExecutables(layout)})

\* The nearest directory on the way up from start that holds flake.nix.
NearestMarkers(start) ==
    {d \in AncestorsOrSelf(start) :
        d \in hasFlake /\ \A e \in Below(start, d) : e \notin hasFlake}

\* C11: Launch working directory. Every formatter a run launches is started
\* with the project root as working directory, the nearest directory with
\* flake.nix on the way up from where main() was started; the capability
\* query and the build of that run are run in the same directory.
C11_WorkingDirectory ==
    \A p \in Procs :
        \A i \in 1..Len(run[p].cmds) :
            run[p].cmds[i].kind \in {"eval", "build", "launch"}
            => {run[p].cmds[i].cwd} = NearestMarkers(cwd)

\* A run started in the subdirectory /r/s of the project /r: the query, the
\* build and the formatter all ran in /r.
C11_Witness ==
    \E p \in Procs :
        /\ cwd = "/r/s"
        /\ run[p].pc = "done"
        /\ \E e \in Invoked(p, "eval"), b \in Invoked(p, "build"), l \in Invoked(p, "launch") :
              /\ run[p].cmds[e].cwd = "/r"
              /\ run[p].cmds[b].cwd = "/r"
              /\ run[p].cmds[l].cwd = "/r"

\* C12: CacheValidator decision. The check answers needs_update = TRUE
\* exactly when the entry is absent, or NO_CACHE is a non-empty string, or
\* some input file exists with an mtime strictly greater than the entry's;
\* an input as old as the entry or a missing input causes no rebuild, and
\* one newer input decides as two do.
C12_Decision ==
    \A p \in Procs :
        run[p].checked
        => run[p].needs_update
             = \/ ~run[p].entry_before.exists
               \/ run[p].no_cache \notin {Unset, ""}
               \/ run[p].newer # {}

\* A check that found flake.nix exactly as old as the entry and no
\* flake.lock, after time had passed, and decided against a rebuild.
C12_Witness ==
    \E p \in Procs :
        /\ run[p].checked /\ run[p].pc = "execute"
        /\ ~run[p].needs_update
        /\ run[p].entry_before.exists
        /\ run[p].entry_before.mtime > 0
        /\ mtime[run[p].toplevel]["flake.nix"] = run[p].entry_before.mtime
        /\ mtime[run[p].toplevel]["flake.lock"] = Missing

\* A check that found both input files newer than the entry.
C12_BothNewer ==
    \E p \in Procs :
        /\ run[p].checked /\ run[p].needs_update
        /\ run[p].newer = {"flake.nix", "flake.lock"}

\* The arguments of build command b of run p that stand between nix's own
\* build options and the caller's nix arguments.
ThreadedArgs(p, b) ==
    LET argv == run[p].cmds[b].argv
    IN  SubSeq(argv, 10, Len(argv) - Len(BeforeSeparator(run[p].args)) - 1)

\* C13 as claimed: the build is given the in-place flag naming the entry
\* when the entry existed at the check, and nothing when it was absent.
C13_BuildArgsAsClaimed ==
    \A p \in Procs :
        \A b \in Invoked(p, "build") :
            ThreadedArgs(p, b)
              = IF run[p].entry_before.exists
                THEN <<"-o", CachePath[run[p].toplevel]>>
                ELSE <<>>

\* C13: BuildArgs, amended. The build is given the in-place flag naming the
\* entry when the entry existed at the check and NO_CACHE was not truthy
\* (an input file was newer); it is given nothing when the entry was absent
\* or NO_CACHE forced the rebuild.
C13_BuildArgs ==
    \A p \in Procs :
        \A b \in Invoked(p, "build") :
            ThreadedArgs(p, b)
              = IF run[p].entry_before.exists /\ run[p].no_cache \in {Unset, ""}
                THEN <<"-o", CachePath[run[p].toplevel]>>
                ELSE <<>>

\* A build that refreshed an existing entry in place, with nix arguments of
\* the caller after the flag.
C13_Witness ==
    \E p \in Procs :
        /\ run[p].entry_before.exists
        /\ run[p].newer # {}
        /\ run[p].args = <<"a", "--", "c">>
        /\ \E b \in Invoked(p, "build") :
              ThreadedArgs(p, b) = <<"-o", CachePath[run[p].toplevel]>>

\* The path execute_formatter was or is about to be given by run p: the
\* base of the launched executable, or the path held at the launch step.
HandedPaths(p) ==
    {run[p].cmds[l].exe.base : l \in Invoked(p, "launch")}
      \cup (IF run[p].pc = "execute" THEN {run[p].fmt_cache_path} ELSE {})

\* C14: ArtifactPath. In a run whose build succeeded the launcher is given
\* the store path the build printed, without the trailing newline, and not
\* the cache entry path; in a run that did not build it is given the cache
\* entry path of the project root.
C14_ArtifactPath ==
    \A p \in Procs :
        \A path \in HandedPaths(p) :
            IF Invoked(p, "build") = {}
            THEN path = CachePath[run[p].toplevel]
            ELSE /\ path \notin CachePaths
                 /\ path \in StorePaths
                 /\ \A b \in Invoked(p, "build") :
                        run[p].cmds[b].stdout = PrintOutPath(path)

\* A rebuilding run launched an executable under the store path its build
\* printed, while the cache entry points to the same artifact.
C14_Witness ==
    \E p \in Procs :
        /\ run[p].pc = "done"
        /\ run[p].entry_before.exists
        /\ cache[run[p].toplevel].target = "/nix/store/multi"
        /\ \E b \in Invoked(p, "build"), l \in Invoked(p, "launch") :
              /\ run[p].cmds[b].stdout = "/nix/store/multi\n"
              /\ run[p].cmds[l].exe.base = "/nix/store/multi"

\* A run that did not rebuild launched an executable under the entry path.
C14_HitWitness ==
    \E p \in Procs :
        /\ run[p].pc = "done"
        /\ Invoked(p, "build") = {}
        /\ \E l \in Invoked(p, "launch") :
              run[p].cmds[l].exe.base = CachePath[run[p].toplevel]

\* The root the walk from start is to return: the nearest directory holding
\* flake.nix when no directory strictly below it holds .git, else None.
ExpectedRoot(start) ==
    LET near == NearestMarkers(start)
    IN  IF near # {} /\ \A d \in near : \A e \in Below(start, d) : e \notin hasGit
        THEN CHOOSE d \in near : TRUE
        ELSE None

\* C15: RootLocator result. In every tree and from every start directory a
\* run holds as its root the nearest directory with flake.nix that no .git
\* strictly below it cuts off, also when that directory holds .git itself,
\* and None otherwise; the walk inspected the start first, then parent after
\* parent, no directory twice, and stopped at the directory it returned, at
\* a .git boundary or at the filesystem root.
C15_RootLocator ==
    \A p \in Procs :
        run[p].pc # "idle" =>
            LET seen == run[p].inspected
            IN  /\ run[p].toplevel = ExpectedRoot(cwd)
                /\ Len(seen) >= 1 /\ seen[1] = cwd
                /\ \A i \in 1..(Len(seen) - 1) :
                      seen[i + 1] = Parent[seen[i]] /\ seen[i + 1] # seen[i]
                /\ \A i, j \in 1..Len(seen) : seen[i] = seen[j] => i = j
                /\ Cardinality({i \in 1..Len(seen) : seen[i] = "/"}) <= 1
                /\ run[p].toplevel # None => seen[Len(seen)] = run[p].toplevel
                /\ run[p].toplevel = None =>
                      seen[Len(seen)] = "/" \/ seen[Len(seen)] \in hasGit

\* The walk from /r/s returned /r, which holds both flake.nix and .git.
C15_Witness ==
    \E p \in Procs :
        /\ cwd = "/r/s" /\ "/r/s" \notin hasFlake \cup hasGit
        /\ "/r" \in hasFlake \cap hasGit
        /\ run[p].pc # "idle"
        /\ run[p].toplevel = "/r"
        /\ run[p].inspected = <<"/r/s", "/r">>

\* The walk reached the filesystem root and found flake.nix there, though
\* the root holds .git as well.
C15_RootWitness ==
    \E p \in Procs :
        /\ cwd = "/r/s" /\ hasFlake = {"/"} /\ hasGit = {"/"}
        /\ run[p].toplevel = "/"
        /\ run[p].inspected = <<"/r/s", "/r", "/">>

\* The walk gave up at the filesystem root.
C15_NotFoundWitness ==
    \E p \in Procs :
        /\ hasFlake = {} /\ hasGit = {}
        /\ run[p].pc = "done" /\ run[p].toplevel = None
        /\ run[p].inspected = <<"/r/s", "/r", "/">>

\* The place of a command in main()'s order.
Rank(kind) ==
    CASE kind = "config" -> 1
      [] kind = "eval"   -> 2
      [] kind = "build"  -> 3
      [] OTHER           -> 4

\* Command i of run p went wrong: nix returned non-zero, or the capability
\* query did not answer "true".
StepFailed(p, i) ==
    LET c == run[p].cmds[i]
    IN  \/ c.kind # "launch" /\ c.returncode # 0
        \/ c.kind = "eval" /\ c.stdout # "true\n"

\* C16: Ordering. The commands of a run are invoked in the order platform
\* query, capability query, build, launch, each at most once; none is
\* invoked before the root is located, the cache is checked after the
\* platform query and before the capability query, the build directly
\* follows the capability query, the launch is the last command, and a
\* command that went wrong is the last command of its run, which has ended.
C16_Ordering ==
    \A p \in Procs :
        LET cmds == run[p].cmds
        IN  /\ \A i, j \in 1..Len(cmds) :
                  i < j => Rank(cmds[i].kind) < Rank(cmds[j].kind)
            /\ cmds # <<>> => run[p].toplevel # None /\ cmds[1].kind = "config"
            /\ run[p].checked =>
                  /\ Invoked(p, "config") = {1} /\ cmds[1].returncode = 0
                  /\ run[p].fmt_cache_path # None
            /\ \A i \in 2..Len(cmds) : run[p].checked
            /\ \A b \in Invoked(p, "build") :
                  b = 3 /\ cmds[2].kind = "eval" /\ run[p].needs_update
            /\ \A e \in Invoked(p, "eval") : run[p].needs_update
            /\ \A l \in Invoked(p, "launch") : l = Len(cmds) /\ run[p].pc = "done"
            /\ \A i \in 1..Len(cmds) :
                  StepFailed(p, i) => i = Len(cmds) /\ run[p].pc = "done"

\* A run that invoked all four commands, in order.
C16_Witness ==
    \E p \in Procs :
        /\ run[p].pc = "done"
        /\ Len(run[p].cmds) = 4
        /\ run[p].cmds[1].kind = "config" /\ run[p].cmds[2].kind = "eval"
        /\ run[p].cmds[3].kind = "build" /\ run[p].cmds[4].kind = "launch"

\* A run over an existing entry whose build failed: it ended there.
C16_FailedBuildWitness ==
    \E p \in Procs :
        /\ run[p].pc = "done"
        /\ run[p].entry_before.exists
        /\ Len(run[p].cmds) = 3
        /\ run[p].cmds[3].kind = "build" /\ run[p].cmds[3].returncode # 0

\* This step is a step of run p, taken at or after its cache check, and the
\* check decided against a rebuild.
HitStep(p) ==
    /\ run'[p] # run[p]
    /\ run'[p].checked /\ ~run'[p].needs_update

\* This step is the cache check of run p.
CheckStep(p) == ~run[p].checked /\ run'[p].checked

\* C17: HitFrame. The cache check changes no cache entry and no input file,
\* and makes the cache directory only when it decides for a rebuild; every
\* step of a run whose check decided against a rebuild leaves the cache
\* directory, every cache entry (existence, target, timestamp), the input
\* files and the environment as they were.
C17_HitFrame ==
    [][\A p \in Procs :
          /\ CheckStep(p) =>
                /\ UNCHANGED <<cache, mtime, environ, clock>>
                /\ cacheDir' # cacheDir => run'[p].needs_update
          /\ HitStep(p) => UNCHANGED <<cache, cacheDir, mtime, environ, clock>>]_vars

\* A run that decided against a rebuild launched the formatter, and the
\* entry is what it was at the check.
C17_Witness ==
    \E p \in Procs :
        /\ run[p].pc = "done" /\ run[p].checked /\ ~run[p].needs_update
        /\ Launched(p)
        /\ Len(run[p].cmds) = 2
        /\ cacheDir
        /\ cache[run[p].toplevel] = run[p].entry_before
        /\ run[p].entry_before.mtime < clock

\* This step ends the build of run p with success.
BuildFinishes(p) ==
    /\ Invoked(p, "build") = {}
    /\ Len(run'[p].cmds) = Len(run[p].cmds) + 1
    /\ run'[p].cmds[Len(run'[p].cmds)].kind = "build"
    /\ run'[p].cmds[Len(run'[p].cmds)].returncode = 0

\* C18: No mutual exclusion. Runs on the same root name the same entry path
\* in their build commands; no run waits for another: a run at the build
\* step can take it whatever the other run does; every build that ends
\* with success makes the entry point to what it built, whatever another
\* run wrote there before, and no other step of a run changes an entry, so
\* that the entry left is the one of the build that ended last.
C18_LastWriterWins ==
    /\ [](\A p, q \in Procs :
            \A b \in Invoked(p, "build"), c \in Invoked(q, "build") :
                run[p].toplevel = run[q].toplevel
                => /\ run[p].cmds[b].argv[6] = run[q].cmds[c].argv[6]
                   /\ run[p].cmds[b].argv[6] = CachePath[run[p].toplevel])
    /\ [](\A p \in Procs : run[p].pc = "build" => ENABLED BuildFormatter(p))
    /\ [][/\ \A p \in Procs :
               BuildFinishes(p) =>
                  /\ cache'[run[p].toplevel].exists
                  /\ PrintOutPath(cache'[run[p].toplevel].target)
                       = run'[p].cmds[Len(run'[p].cmds)].stdout
          /\ (\A p \in Procs : ~BuildFinishes(p)) => cache' = cache]_vars

\* Both runs passed the check before either had built, both built, run 1
\* ended its build first with another result than run 2, and the entry is
\* the one of run 2.
C18_Witness ==
    /\ run[1].checked /\ run[2].checked
    /\ run[1].entry_before = run[2].entry_before
    /\ run[1].entry_before = StaleEntry
    /\ \E b \in Invoked(1, "build"), c \in Invoked(2, "build") :
          /\ run[1].cmds[b].stdout = "/nix/store/multi\n"
          /\ run[2].cmds[c].stdout = "/nix/store/script\n"
    /\ run[1].pc = "done" /\ run[2].pc = "execute"
    /\ cache["/r"].target = "/nix/store/script"

\* Both runs are at the build step at once.
C18_BothBuilding == run[1].pc = "build" /\ run[2].pc = "build"

\* The last command of run p, for a run that invoked one.
LastCmd(p) == run[p].cmds[Len(run[p].cmds)]

\* C19: No silent failure. A run that has ended without a launch wrote
\* exactly one diagnostic to stderr, and diagnostic and exit code are those
\* of the way it ended: "No flake.nix found" and 1 when no root was found
\* (and no command was invoked); "Warning: No formatter defined" and 0
\* when the capability query, its last command, answered other than "true"
\* or failed for the missing attribute; "Error: ..." and the return code of
\* its last command when that command failed otherwise; "No executable
\* formatter found" and 1 when every command it invoked succeeded.
C19_NoSilentFailure ==
    \A p \in Procs :
        (run[p].pc = "done" /\ ~Launched(p)) =>
            /\ Len(run[p].stderr) = 1
            /\ IF run[p].toplevel = None
               THEN /\ run[p].stderr[1] = "No flake.nix found"
                    /\ run[p].exit_code = 1
                    /\ run[p].cmds = <<>>
               ELSE IF LastCmd(p).returncode = 0 /\ LastCmd(p).kind = "eval"
               THEN /\ run[p].stderr[1] = "Warning: No formatter defined"
                    /\ run[p].exit_code = 0
                    /\ LastCmd(p).stdout # "true\n"
               ELSE IF LastCmd(p).returncode = 0
               THEN /\ run[p].stderr[1] = "No executable formatter found"
                    /\ run[p].exit_code = 1
                    /\ NixSucceeded(p)
               ELSE IF /\ LastCmd(p).kind = "eval"
                       /\ LastCmd(p).stderr = "error: flake does not provide attribute 'formatter'"
               THEN /\ run[p].stderr[1] = "Warning: No formatter defined"
                    /\ run[p].exit_code = 0
               ELSE /\ run[p].stderr[1] = "Error: Nix command failed"
                    /\ run[p].exit_code = LastCmd(p).returncode
                    /\ run[p].exit_code # 0

\* A run built an artifact that holds nothing to launch and said so.
C19_Witness ==
    \E p \in Procs :
        /\ run[p].pc = "done" /\ ~Launched(p)
        /\ Len(run[p].cmds) = 3
        /\ LastCmd(p).kind = "build" /\ LastCmd(p).stdout = "/nix/store/data\n"
        /\ run[p].stderr = <<"No executable formatter found">>
        /\ run[p].exit_code = 1

\* A run found no root and said so.
C19_NoRootWitness ==
    \E p \in Procs :
        /\ run[p].pc = "done" /\ run[p].toplevel = None
        /\ run[p].stderr = <<"No flake.nix found">> /\ run[p].exit_code = 1

\* A run whose capability query failed for another reason than the missing
\* attribute ended with the query's return code 2.
C19_ErrorWitness ==
    \E p \in Procs :
        /\ run[p].pc = "done" /\ Len(run[p].cmds) = 2
        /\ LastCmd(p).kind = "eval" /\ LastCmd(p).returncode = 2
        /\ run[p].stderr = <<"Error: Nix command failed">> /\ run[p].exit_code = 2

\* Run p decided to rebuild over an existing entry and its rebuild gave no
\* artifact: it invoked the capability query and no build ended with 0.
RebuildGaveNothing(p) ==
    /\ run[p].checked /\ run[p].needs_update /\ run[p].entry_before.exists
    /\ Invoked(p, "eval") # {}
    /\ \A b \in Invoked(p, "build") : run[p].cmds[b].returncode # 0

\* C20: No fallback to a stale artifact. A run that decided to rebuild
\* over an existing entry (an input file newer, or NO_CACHE) and whose
\* capability query failed or found no formatter, or whose build failed,
\* has ended with that command as its last one: it launched nothing, no
\* formatter's return code is its exit code, and the entry is left as
\* it was at the check.
C20_NoStaleFallback ==
    \A p \in Procs :
        RebuildGaveNothing(p) =>
            \/ run[p].pc = "build"
            \/ /\ run[p].pc = "done"
               /\ ~Launched(p)
               /\ run[p].child_code = -1
               /\ LastCmd(p).kind \in {"eval", "build"}
               /\ cache[run[p].toplevel] = run[p].entry_before

\* A run found flake.nix newer than an entry that holds a launchable
\* artifact, its build failed, and it ended without a launch.
C20_Witness ==
    \E p \in Procs :
        /\ RebuildGaveNothing(p)
        /\ run[p].pc = "done" /\ ~Launched(p)
        /\ run[p].newer # {}
        /\ run[p].entry_before.target = "/nix/store/treefmt"
        /\ cache[run[p].toplevel].exists
        /\ LastCmd(p).kind = "build" /\ LastCmd(p).returncode = 2
        /\ run[p].exit_code = 2

\* The same with NO_CACHE and a platform without formatter.
C20_NoFormatterWitness ==
    \E p \in Procs :
        /\ RebuildGaveNothing(p)
        /\ run[p].pc = "done" /\ ~Launched(p)
        /\ run[p].no_cache = "1"
        /\ LastCmd(p).kind = "eval" /\ LastCmd(p).stdout = "false\n"
        /\ run[p].exit_code = 0

\* The platform query of run p, the first command of a run that has one.
PlatformQueryFailed(p) ==
    /\ run[p].cmds # <<>>
    /\ run[p].cmds[1].kind = "config"
    /\ run[p].cmds[1].returncode # 0

\* C21: Platform query first. A run that found a root and has gone past
\* the platform query step invoked `nix config show system` as its first
\* command; a run that consulted the cache did so after that query returned
\* 0, also when it then decided against a rebuild; a run whose query
\* returned non-zero never consulted the cache, invoked no other command,
\* launched nothing and ended with the query's return code, whatever the
\* cache holds.
C21_PlatformQueryFirst ==
    \A p \in Procs :
        /\ (run[p].toplevel # None /\ run[p].pc \notin {"idle", "get_system"})
              => run[p].cmds # <<>> /\ run[p].cmds[1].kind = "config"
        /\ run[p].checked
              => /\ run[p].cmds # <<>>
                 /\ run[p].cmds[1].kind = "config"
                 /\ run[p].cmds[1].returncode = 0
                 /\ run[p].current_system = "x86_64-linux"
        /\ PlatformQueryFailed(p)
              => /\ run[p].pc = "done"
                 /\ ~run[p].checked
                 /\ Len(run[p].cmds) = 1
                 /\ ~Launched(p)
                 /\ run[p].child_code = -1
                 /\ run[p].exit_code = run[p].cmds[1].returncode

\* The platform query returned 2 while the entry was fresh and held a
\* launchable artifact and NO_CACHE was unset: the run ended with 2.
C21_Witness ==
    \E p \in Procs :
        /\ PlatformQueryFailed(p)
        /\ run[p].cmds[1].returncode = 2
        /\ run[p].pc = "done" /\ run[p].exit_code = 2
        /\ cache[run[p].toplevel].exists /\ fresh /\ environ = Unset
        /\ cache[run[p].toplevel].target = "/nix/store/treefmt"

\* A run that ended as a cache hit had queried the platform first.
C21_HitWitness ==
    \E p \in Procs :
        /\ run[p].pc = "done" /\ run[p].checked /\ ~run[p].needs_update
        /\ Len(run[p].cmds) = 2
        /\ run[p].cmds[1].kind = "config" /\ run[p].cmds[2].kind = "launch"

====
